---- MODULE Spec2Model ----
(***************************************************************************)
(* A model of notebook.py: the Notebook window's pages, their raster       *)
(* canvases, the per-index undo/redo stacks, the pasted floating image and *)
(* the mouse handlers.                                                     *)
(*                                                                         *)
(* A canvas (QPixmap) is modelled by the list of paint commands that were  *)
(* applied to it after the initial white fill: two canvases with the same  *)
(* list hold the same pixels.  QPixmap.copy() is a value copy, so a        *)
(* snapshot is the list itself.                                            *)
(***************************************************************************)
EXTENDS Integers, Sequences, FiniteSets, TLC

VARIABLES
    pages,              \* self.pages: sequence of Page
    current_page_idx,   \* self.current_page_idx (0-based, -1 when unset)
    undo_stacks,        \* self.undo_stacks: dict index -> list of canvases
    redo_stacks,        \* self.redo_stacks: dict index -> list of canvases
    drawing,            \* self.drawing
    last_point,         \* self.last_point
    pen_color,          \* self.pen_color
    eraser,             \* self.eraser
    eraser_checked,     \* self.eraser_act.isChecked()
    eyedropper,         \* self.eyedropper
    floating_image,     \* self.floating_image ("None" or an image)
    floating_pos,       \* self.floating_pos
    move_mode,          \* self.move_mode
    win,                \* <<self.width(), self.height()>>
    left_down,          \* the left mouse button is held (event.buttons())
    raised,             \* the uncaught exception that ended the program, or "none"
    last,               \* the handler that ran last, with ":stamp" when
                        \* toggle_move_mode stamped and ":no image" when
                        \* paste_image found none (history variable)
    trk,                \* the run of operations, undos and redos under way
                        \* on the active page (history variable)
    hold,               \* what the last press of the button began, and what
                        \* ran since (history variable)
    prev                \* the handler that ran before the last (history variable)

vars == <<pages, current_page_idx, undo_stacks, redo_stacks, drawing, last_point,
          pen_color, eraser, eraser_checked, eyedropper, floating_image,
          floating_pos, move_mode, win, left_down, raised, last, trk, hold, prev>>

----------------------------------------------------------------------------
(* Bounds of the model *)

MaxPages == 3       \* pages of a page-list session
MaxHist == 2        \* canvases on a stack of a page-list or overlay session
MaxInk == 1         \* paint commands on a canvas of a page-list or overlay session
HistPages == 1      \* pages of a history session
HistDepth == 3      \* canvases on a stack of a history session
HistInk == 2        \* paint commands on a canvas of a history session
OverlayPages == 1   \* pages of an overlay session
SwitchPages == 2    \* pages of a switch session

(* Program constants *)

MinPageSide == 200          \* max(200, ...) in add_page
InitWidth == 1200           \* setGeometry(100, 100, 1200, 800)
InitHeight == 800
InitFloatX == 100           \* floating_pos = QPoint(100, 100)
InitFloatY == 100
ToolbarHeight == 30         \* self.toolbar.geometry().height()

None == "None"

(* Inputs *)

\* window sizes a resizeEvent can leave the window with
WindowSizes == { <<InitWidth, InitHeight>>, <<150, 150>> }

\* pointer positions of mouse events, in window coordinates: on the first page
\* and inside an image pasted on it, far up and left of the window, far down
\* and right of it
PointerPositions == { <<600, 430>>, <<-700, -700>>, <<3000, 3000>> }

\* clipboard images: name -> size and (uniform) colour; "null" is no image
ClipboardImages == { "small", "wide" }
ImgW(pm) == IF pm = "small" THEN 100 ELSE 1500
ImgH(pm) == 100
ImgColor(pm) == "red"

\* file names the background dialog can return; "" is a cancelled dialog
FileNames == { "", "good.png", "bad.png" }
Decodable(path) == path = "good.png"

\* palette colours offered by the toolbar
Palette == { "red" }

----------------------------------------------------------------------------
(* Helpers *)

Max(a, b) == IF a >= b THEN a ELSE b
Min(a, b) == IF a <= b THEN a ELSE b

PSub(p, q) == <<p[1] - q[1], p[2] - q[2]>>
PAdd(p, q) == <<p[1] + q[1], p[2] + q[2]>>

\* (a faulty variant: list.pop() takes the last element)
RemoveAt_last(s, i) == SubSeq(s, 1, Len(s) - 1)

\* list.pop(i) for a valid 0-based i
RemoveAt(s, i) == SubSeq(s, 1, i) \o SubSeq(s, i + 2, Len(s))

\* dict.setdefault(i, [])
SetDefault(d, i) ==
    [k \in (DOMAIN d) \cup {i} |-> IF k \in DOMAIN d THEN d[k] ELSE <<>>]

\* dict.pop(i, None)
DictPop(d, i) == [k \in (DOMAIN d) \ {i} |-> d[k]]

\* the list a dict holds for key i, as ensure_stacks would leave it
StackAt(d, i) == IF i \in DOMAIN d THEN d[i] ELSE <<>>

----------------------------------------------------------------------------
(* Page *)

\* QPainter.drawPixmap / drawLine on a canvas: one more paint command
Paint(canvas, op, a, b, ink) ==
    Append(canvas, [op |-> op, a |-> a, b |-> b, ink |-> ink])

\* Page.set_background: an image that does not decode is a null QPixmap, whose
\* scaled copy is null and whose drawPixmap paints nothing; bg_image is set anyway
set_background(pg, image_path) ==
    [pg EXCEPT !.canvas = IF Decodable(image_path)
                          THEN Paint(@, "bg", <<0, 0>>, <<pg.w, pg.h>>, image_path)
                          ELSE @,
               !.bg_image = image_path]

\* Page.__init__: a white canvas, the background painted when one is given
NewPage(id, w, h, bg_image) ==
    LET blank == [id |-> id, w |-> w, h |-> h, canvas |-> <<>>, bg_image |-> None]
    IN  IF bg_image # None /\ bg_image # "" THEN set_background(blank, bg_image)
        ELSE blank

\* the identity of a newly allocated Page object: one no live page has
FreshId(ps) ==
    LET used == { ps[i].id : i \in 1..Len(ps) }
    IN  CHOOSE n \in 0..Len(ps) : n \notin used /\ \A m \in 0..(n - 1) : m \in used

\* the colour of the pixel at p: the last paint command that covers p decides,
\* the white fill otherwise
Covers(c, p) ==
    CASE c.op = "bg" -> TRUE
      [] c.op = "pixmap" -> /\ c.a[1] <= p[1] /\ p[1] < c.a[1] + c.b[1]
                            /\ c.a[2] <= p[2] /\ p[2] < c.a[2] + c.b[2]
      [] OTHER -> p = c.a \/ p = c.b

InkColor(c) ==
    CASE c.op = "bg" -> "photo"
      [] c.op = "pixmap" -> ImgColor(c.ink)
      [] OTHER -> c.ink

PixelAt(canvas, p) ==
    LET hits == { i \in 1..Len(canvas) : Covers(canvas[i], p) }
    IN  IF hits = {} THEN "white"
        ELSE InkColor(canvas[CHOOSE i \in hits : \A j \in hits : j <= i])

----------------------------------------------------------------------------
(* Notebook utilities *)

HasPage == 0 <= current_page_idx /\ current_page_idx < Len(pages)

\* Notebook.page(), where HasPage
page == pages[current_page_idx + 1]

\* event.pos() - rect.topLeft(), with rect = drawing_rect()
Local(pos) == PSub(pos, <<0, ToolbarHeight>>)

in_canvas(p) ==
    /\ HasPage
    /\ 0 <= p[1] /\ p[1] < page.w
    /\ 0 <= p[2] /\ p[2] < page.h

\* change_page(idx) on n pages with active index cur: the new active index
change_page(idx, n, cur) == IF 0 <= idx /\ idx < n THEN idx ELSE cur

\* update_page_list: clear() reports row -1 and setCurrentRow reports the row,
\* both through currentRowChanged -> change_page
update_page_list(n, cur) ==
    LET cleared == change_page(-1, n, cur)
    IN  IF cur >= 0 THEN change_page(cur, n, cleared) ELSE cleared

----------------------------------------------------------------------------
(* Undo / redo stacks *)

ensure_stacks(d, i) == SetDefault(d, i)

\* (a faulty variant: nothing is pushed)
snapshot_undo_nopush(u, i, canvas) == ensure_stacks(u, i)

\* (a faulty variant: the canvas is pushed twice)
snapshot_undo_twice(u, i, canvas) ==
    [ensure_stacks(u, i) EXCEPT ![i] = Append(Append(@, canvas), canvas)]

\* snapshot(): the undo stacks after pushing canvas for index i
snapshot_undo(u, i, canvas) ==
    [ensure_stacks(u, i) EXCEPT ![i] = Append(@, canvas)]

\* snapshot(): the redo stacks after clearing index i
snapshot_redo(r, i) == [ensure_stacks(r, i) EXCEPT ![i] = <<>>]

Running == raised = "none"

\* (a faulty variant: undo takes the oldest canvas of the stack)
undo_step_oldest(canvas, u, r) ==
    [canvas |-> u[1], undo |-> SubSeq(u, 1, Len(u) - 1), redo |-> Append(r, canvas)]

\* (a faulty variant: the canvas that undo replaces is not kept for redo)
undo_step_forgets(canvas, u, r) ==
    [canvas |-> u[Len(u)], undo |-> SubSeq(u, 1, Len(u) - 1), redo |-> r]

\* undo(): the canvas and the two lists of the active index after an undo
undo_step(canvas, u, r) ==
    [canvas |-> u[Len(u)], undo |-> SubSeq(u, 1, Len(u) - 1), redo |-> Append(r, canvas)]

\* redo(): the canvas and the two lists of the active index after a redo
redo_step(canvas, u, r) ==
    [canvas |-> r[Len(r)], undo |-> Append(u, canvas), redo |-> SubSeq(r, 1, Len(r) - 1)]

\* (a faulty variant: idx - 1 without max(0, ...))
index_after_delete_nomax(idx, n) == IF n = 0 THEN -1 ELSE idx - 1

\* delete_current_page: the active index once the page at idx is gone, n pages left
index_after_delete(idx, n) == IF n = 0 THEN -1 ELSE Max(0, idx - 1)

\* paste_image: max(0, (w - pm.width()) // 2)
paste_axis(side, img_side) == Max(0, (side - img_side) \div 2)

\* (a faulty variant: min(...) without max(0, ...))
clamp_axis_nomax(x, side, img_side) == Min(x, side - img_side)

\* mouseMoveEvent: max(0, min(x, w - floating_image.width()))
clamp_axis(x, side, img_side) == Max(0, Min(x, side - img_side))

\* mousePressEvent: the click lies inside the floating image
inside_floating(local) ==
    LET rel == PSub(local, floating_pos)
    IN  /\ floating_image # None /\ move_mode
        /\ 0 <= rel[1] /\ rel[1] < ImgW(floating_image)
        /\ 0 <= rel[2] /\ rel[2] < ImgH(floating_image)

\* no run of operations is being followed
Idle == [phase |-> "idle", base |-> <<>>, final |-> <<>>, n |-> 0, k |-> 0]

\* no press of the button is being followed
NoHold == [began |-> "none", id |-> -1, base |-> <<>>, depth |-> 0, segs |-> 0,
           since |-> "other"]

toolVars == <<pen_color, eraser, eraser_checked, eyedropper>>
overlayVars == <<floating_image, floating_pos, move_mode>>
pageVars == <<pages, current_page_idx>>
histVars == <<undo_stacks, redo_stacks>>
mouseVars == <<drawing, last_point, left_down>>

----------------------------------------------------------------------------
(* The state after Notebook.__init__, which adds the first page *)

Init ==
    LET pg == NewPage(0, Max(MinPageSide, InitWidth),
                      Max(MinPageSide, InitHeight - ToolbarHeight), None)
    IN  /\ pages = <<pg>>
        /\ current_page_idx = 0
        /\ undo_stacks = snapshot_undo(<<>>, 0, pg.canvas)
        /\ redo_stacks = snapshot_redo(<<>>, 0)
        /\ drawing = FALSE
        /\ last_point = <<0, 0>>
        /\ pen_color = "black"
        /\ eraser = FALSE
        /\ eraser_checked = FALSE
        /\ eyedropper = FALSE
        /\ floating_image = None
        /\ floating_pos = <<InitFloatX, InitFloatY>>
        /\ move_mode = FALSE
        /\ win = <<InitWidth, InitHeight>>
        /\ left_down = FALSE
        /\ raised = "none"
        /\ last = "init"
        /\ trk = Idle
        /\ hold = NoHold
        /\ prev = "init"

----------------------------------------------------------------------------
(* Pages *)

add_page ==
    /\ Running
    /\ LET w == Max(MinPageSide, win[1])
           h == Max(MinPageSide, win[2] - ToolbarHeight)
           bg == IF HasPage THEN page.bg_image ELSE None
           pg == NewPage(FreshId(pages), w, h, bg)
           ps == Append(pages, pg)
           i == Len(ps) - 1
       IN  /\ pages' = ps
           /\ current_page_idx' = update_page_list(Len(ps), i)
           /\ undo_stacks' = snapshot_undo(undo_stacks, i, pg.canvas)
           /\ redo_stacks' = snapshot_redo(redo_stacks, i)
    /\ last' = "add_page"
    /\ UNCHANGED <<mouseVars, toolVars, overlayVars, win, raised>>

delete_current_page ==
    /\ Running
    /\ IF pages = <<>>
       THEN UNCHANGED <<pageVars, histVars>>
       ELSE LET idx == current_page_idx
                ps == RemoveAt(pages, idx)
            IN  /\ pages' = ps
                /\ undo_stacks' = DictPop(undo_stacks, idx)
                /\ redo_stacks' = DictPop(redo_stacks, idx)
                /\ current_page_idx' =
                       update_page_list(Len(ps), index_after_delete(idx, Len(ps)))
    /\ last' = "delete_current_page"
    /\ UNCHANGED <<mouseVars, toolVars, overlayVars, win, raised>>

ChangePage(idx) ==
    /\ Running
    /\ current_page_idx' = change_page(idx, Len(pages), current_page_idx)
    /\ last' = "change_page"
    /\ UNCHANGED <<pages, histVars, mouseVars, toolVars, overlayVars, win, raised>>

----------------------------------------------------------------------------
(* Undo / redo *)

undo ==
    /\ Running
    /\ LET i == current_page_idx
           us == ensure_stacks(undo_stacks, i)
           rs == ensure_stacks(redo_stacks, i)
       IN  IF us[i] = <<>>
           THEN /\ undo_stacks' = us
                /\ redo_stacks' = rs
                /\ UNCHANGED <<pages, raised>>
           ELSE IF ~HasPage
           THEN \* self.page().canvas on None
                /\ undo_stacks' = us
                /\ redo_stacks' = rs
                /\ raised' = "AttributeError"
                /\ UNCHANGED pages
           ELSE LET s == undo_step(page.canvas, us[i], rs[i])
                IN  /\ undo_stacks' = [us EXCEPT ![i] = s.undo]
                    /\ redo_stacks' = [rs EXCEPT ![i] = s.redo]
                    /\ pages' = [pages EXCEPT ![i + 1].canvas = s.canvas]
                    /\ UNCHANGED raised
    /\ last' = "undo"
    /\ UNCHANGED <<current_page_idx, mouseVars, toolVars, overlayVars, win>>

redo ==
    /\ Running
    /\ LET i == current_page_idx
           us == ensure_stacks(undo_stacks, i)
           rs == ensure_stacks(redo_stacks, i)
       IN  IF rs[i] = <<>>
           THEN /\ undo_stacks' = us
                /\ redo_stacks' = rs
                /\ UNCHANGED <<pages, raised>>
           ELSE IF ~HasPage
           THEN /\ undo_stacks' = us
                /\ redo_stacks' = rs
                /\ raised' = "AttributeError"
                /\ UNCHANGED pages
           ELSE LET s == redo_step(page.canvas, us[i], rs[i])
                IN  /\ undo_stacks' = [us EXCEPT ![i] = s.undo]
                    /\ redo_stacks' = [rs EXCEPT ![i] = s.redo]
                    /\ pages' = [pages EXCEPT ![i + 1].canvas = s.canvas]
                    /\ UNCHANGED raised
    /\ last' = "redo"
    /\ UNCHANGED <<current_page_idx, mouseVars, toolVars, overlayVars, win>>

----------------------------------------------------------------------------
(* Tool actions *)

\* (a faulty variant: the pen keeps its colour)
set_pen_color_keeps(c) ==
    /\ pen_color' = pen_color
    /\ eraser' = FALSE
    /\ eraser_checked' = FALSE
    /\ eyedropper' = FALSE

set_pen_color(c) ==
    /\ pen_color' = c
    /\ eraser' = FALSE
    /\ eraser_checked' = FALSE
    /\ eyedropper' = FALSE

SetPenColor(c) ==
    /\ Running
    /\ set_pen_color(c)
    /\ last' = "set_pen_color"
    /\ UNCHANGED <<pageVars, histVars, mouseVars, overlayVars, win, raised>>

enable_eyedropper ==
    /\ Running
    /\ eyedropper' = TRUE
    /\ eraser' = FALSE
    /\ eraser_checked' = FALSE
    /\ last' = "enable_eyedropper"
    /\ UNCHANGED <<pen_color, pageVars, histVars, mouseVars, overlayVars, win, raised>>

\* (a faulty variant: switching the eraser on leaves the eyedropper armed)
toggle_eraser_keeps ==
    /\ Running
    /\ eraser_checked' = ~eraser_checked
    /\ eraser' = ~eraser_checked
    /\ eyedropper' = eyedropper
    /\ last' = "toggle_eraser"
    /\ UNCHANGED <<pen_color, pageVars, histVars, mouseVars, overlayVars, win, raised>>

\* toggle_eraser(checked), from the toolbar action or from toggle_eraser_shortcut:
\* both flip the action's checked state and pass the new one
toggle_eraser ==
    /\ Running
    /\ LET checked == ~eraser_checked
       IN  /\ eraser_checked' = checked
           /\ eraser' = checked
           /\ eyedropper' = IF checked THEN FALSE ELSE eyedropper
    /\ last' = "toggle_eraser"
    /\ UNCHANGED <<pen_color, pageVars, histVars, mouseVars, overlayVars, win, raised>>

set_background_image(fname) ==
    /\ Running
    /\ IF fname # "" /\ HasPage
       THEN LET i == current_page_idx
            IN  /\ undo_stacks' = snapshot_undo(undo_stacks, i, page.canvas)
                /\ redo_stacks' = snapshot_redo(redo_stacks, i)
                /\ pages' = [pages EXCEPT ![i + 1] = set_background(@, fname)]
       ELSE UNCHANGED <<pages, histVars>>
    /\ last' = "set_background_image"
    /\ UNCHANGED <<current_page_idx, mouseVars, toolVars, overlayVars, win, raised>>

----------------------------------------------------------------------------
(* The floating image *)

\* (a faulty variant: pasting does not enter move mode)
paste_image_still(pm) ==
    /\ Running
    /\ IF pm = "null" \/ ~HasPage
       THEN UNCHANGED overlayVars
       ELSE /\ floating_image' = pm
            /\ floating_pos' = <<paste_axis(page.w, ImgW(pm)), paste_axis(page.h, ImgH(pm))>>
            /\ move_mode' = move_mode
    /\ last' = IF pm = "null" THEN "paste_image:no image" ELSE "paste_image"
    /\ UNCHANGED <<pageVars, histVars, mouseVars, toolVars, win, raised>>

\* pm is the clipboard's image, "null" when it holds none
paste_image(pm) ==
    /\ Running
    /\ IF pm = "null" \/ ~HasPage
       THEN UNCHANGED overlayVars
       ELSE /\ floating_image' = pm
            /\ floating_pos' = <<paste_axis(page.w, ImgW(pm)), paste_axis(page.h, ImgH(pm))>>
            /\ move_mode' = TRUE
    /\ last' = IF pm = "null" THEN "paste_image:no image" ELSE "paste_image"
    /\ UNCHANGED <<pageVars, histVars, mouseVars, toolVars, win, raised>>

toggle_move_mode ==
    /\ Running
    /\ IF floating_image # None
       THEN IF move_mode
            THEN LET i == current_page_idx
                 IN  IF ~HasPage
                     THEN \* snapshot(): ensure_stacks, then self.page().canvas on None
                          /\ undo_stacks' = ensure_stacks(undo_stacks, i)
                          /\ redo_stacks' = ensure_stacks(redo_stacks, i)
                          /\ raised' = "AttributeError"
                          /\ last' = "toggle_move_mode"
                          /\ UNCHANGED <<pages, overlayVars>>
                     ELSE /\ undo_stacks' = snapshot_undo(undo_stacks, i, page.canvas)
                          /\ redo_stacks' = snapshot_redo(redo_stacks, i)
                          /\ pages' = [pages EXCEPT ![i + 1].canvas =
                                 Paint(@, "pixmap", floating_pos,
                                       <<ImgW(floating_image), ImgH(floating_image)>>,
                                       floating_image)]
                          /\ floating_image' = None
                          /\ move_mode' = FALSE
                          /\ last' = "toggle_move_mode:stamp"
                          /\ UNCHANGED <<floating_pos, raised>>
            ELSE /\ move_mode' = TRUE
                 /\ last' = "toggle_move_mode"
                 /\ UNCHANGED <<pages, histVars, floating_image, floating_pos, raised>>
       ELSE /\ last' = "toggle_move_mode"
            /\ UNCHANGED <<pages, histVars, overlayVars, raised>>
    /\ UNCHANGED <<current_page_idx, mouseVars, toolVars, win>>

----------------------------------------------------------------------------
(* Events *)

resizeEvent(size) ==
    /\ Running
    /\ size # win
    /\ win' = size
    /\ last' = "resizeEvent"
    /\ UNCHANGED <<pageVars, histVars, mouseVars, toolVars, overlayVars, raised>>

\* (a faulty variant: a press on the page starts a stroke also when an image
\* floats)
mousePressEvent_over(pos) ==
    /\ Running
    /\ ~left_down
    /\ left_down' = TRUE
    /\ LET local == Local(pos)
           i == current_page_idx
       IN  IF inside_floating(local)
           THEN /\ drawing' = TRUE
                /\ last_point' = local
                /\ UNCHANGED <<pages, histVars, toolVars>>
           ELSE IF ~in_canvas(local)
           THEN UNCHANGED <<pages, histVars, toolVars, drawing, last_point>>
           ELSE IF eyedropper /\ HasPage
           THEN /\ set_pen_color(PixelAt(page.canvas, local))
                /\ UNCHANGED <<pages, histVars, drawing, last_point>>
           ELSE /\ drawing' = TRUE
                /\ last_point' = local
                /\ undo_stacks' = snapshot_undo(undo_stacks, i, page.canvas)
                /\ redo_stacks' = snapshot_redo(redo_stacks, i)
                /\ UNCHANGED <<pages, toolVars>>
    /\ last' = "mousePressEvent"
    /\ UNCHANGED <<current_page_idx, overlayVars, win, raised>>

\* a press of the left button at window position pos
mousePressEvent(pos) ==
    /\ Running
    /\ ~left_down
    /\ left_down' = TRUE
    /\ LET local == Local(pos)
           i == current_page_idx
       IN  IF inside_floating(local)
           THEN /\ drawing' = TRUE
                /\ last_point' = local
                /\ UNCHANGED <<pages, histVars, toolVars>>
           ELSE IF ~in_canvas(local)
           THEN UNCHANGED <<pages, histVars, toolVars, drawing, last_point>>
           ELSE IF eyedropper /\ HasPage
           THEN /\ set_pen_color(PixelAt(page.canvas, local))
                /\ UNCHANGED <<pages, histVars, drawing, last_point>>
           ELSE IF HasPage /\ floating_image = None /\ ~move_mode
           THEN /\ drawing' = TRUE
                /\ last_point' = local
                /\ undo_stacks' = snapshot_undo(undo_stacks, i, page.canvas)
                /\ redo_stacks' = snapshot_redo(redo_stacks, i)
                /\ UNCHANGED <<pages, toolVars>>
           ELSE UNCHANGED <<pages, histVars, toolVars, drawing, last_point>>
    /\ last' = "mousePressEvent"
    /\ UNCHANGED <<current_page_idx, overlayVars, win, raised>>

\* a move of the pointer to window position pos; Qt reports moves while a button
\* is held (mouse tracking is off)
mouseMoveEvent(pos) ==
    /\ Running
    /\ left_down
    /\ LET local == Local(pos)
           i == current_page_idx
       IN  IF ~HasPage
           THEN UNCHANGED <<pages, floating_pos, last_point>>
           ELSE IF floating_image # None /\ move_mode /\ drawing
           THEN LET moved == PAdd(floating_pos, PSub(local, last_point))
                IN  /\ floating_pos' =
                           <<clamp_axis(moved[1], page.w, ImgW(floating_image)),
                             clamp_axis(moved[2], page.h, ImgH(floating_image))>>
                    /\ last_point' = local
                    /\ UNCHANGED pages
           ELSE IF drawing /\ left_down /\ floating_image = None /\ ~move_mode
           THEN IF ~in_canvas(local)
                THEN UNCHANGED <<pages, floating_pos, last_point>>
                ELSE /\ pages' = [pages EXCEPT ![i + 1].canvas =
                            Paint(@, "line", last_point, local,
                                  IF eraser THEN "white" ELSE pen_color)]
                     /\ last_point' = local
                     /\ UNCHANGED floating_pos
           ELSE UNCHANGED <<pages, floating_pos, last_point>>
    /\ last' = "mouseMoveEvent"
    /\ UNCHANGED <<current_page_idx, histVars, drawing, left_down, toolVars,
                   floating_image, move_mode, win, raised>>

mouseReleaseEvent ==
    /\ Running
    /\ left_down
    /\ left_down' = FALSE
    /\ drawing' = FALSE
    /\ last' = "mouseReleaseEvent"
    /\ UNCHANGED <<pageVars, histVars, last_point, toolVars, overlayVars, win, raised>>

----------------------------------------------------------------------------

(* The run of destructive operations on the active page that is being      *)
(* followed: n operations (each begins with the snapshot of a stroke start, *)
(* a background change or a stamp) from the canvas base, then k undos from  *)
(* the canvas final, then k redos.  Switching, adding or deleting a page,   *)
(* an undo while the button is held and an undo or redo out of turn end it. *)

OperationStarts ==
    /\ last' \in {"mousePressEvent", "set_background_image", "toggle_move_mode:stamp"}
    /\ raised' = "none"
    /\ Len(StackAt(undo_stacks', current_page_idx)) =
           Len(StackAt(undo_stacks, current_page_idx)) + 1

Track ==
    trk' =
      IF OperationStarts
      THEN IF trk.phase = "ops" THEN [trk EXCEPT !.n = @ + 1]
           ELSE [phase |-> "ops", base |-> page.canvas, final |-> <<>>, n |-> 1, k |-> 0]
      ELSE IF last' \in {"add_page", "delete_current_page", "change_page"}
      THEN Idle
      ELSE IF last' = "undo"
      THEN IF trk.phase = "ops" /\ ~drawing
           THEN [trk EXCEPT !.phase = "undo", !.final = page.canvas, !.k = 1]
           ELSE IF trk.phase = "undo" /\ trk.k < trk.n
           THEN [trk EXCEPT !.k = @ + 1]
           ELSE Idle
      ELSE IF last' = "redo"
      THEN IF trk.phase = "undo" /\ trk.k = trk.n
           THEN [trk EXCEPT !.phase = "redo", !.k = 1]
           ELSE IF trk.phase = "redo" /\ trk.k < trk.n
           THEN [trk EXCEPT !.k = @ + 1]
           ELSE Idle
      ELSE trk

(* The press of the left button that came last: what it began (a stroke, a  *)
(* drag of the floating image, or neither), the page that was active, its   *)
(* canvas and the length of its undo stack before the press, the number of  *)
(* moves that painted since, and whether only mouse events ran since        *)
(* ("pointer"), or those and then one undo ("undo").  Once another handler  *)
(* has run, only what the press began and the page are kept, and nothing    *)
(* when the button is up.                                                   *)

Hold ==
    hold' =
      IF last' = "mousePressEvent"
      THEN [began |-> IF drawing'
                      THEN IF floating_image = None THEN "stroke" ELSE "drag"
                      ELSE "other",
            id |-> IF HasPage THEN page.id ELSE -1,
            base |-> IF HasPage THEN page.canvas ELSE <<>>,
            depth |-> Len(StackAt(undo_stacks, current_page_idx)),
            segs |-> 0,
            since |-> "pointer"]
      ELSE IF last' \in {"mouseMoveEvent", "mouseReleaseEvent"} /\ hold.since = "pointer"
      THEN [hold EXCEPT !.segs = IF pages' # pages THEN @ + 1 ELSE @]
      ELSE IF last' = "undo" /\ hold.since = "pointer"
      THEN [hold EXCEPT !.since = "undo"]
      ELSE IF left_down'
      THEN [hold EXCEPT !.base = <<>>, !.depth = 0, !.segs = 0, !.since = "other"]
      ELSE NoHold

Before == prev' = last

----------------------------------------------------------------------------
\* the whole program: every handler, with every input
Next ==
    /\ \/ add_page
       \/ delete_current_page
       \/ \E idx \in -1..Len(pages) : ChangePage(idx)
       \/ undo
       \/ redo
       \/ \E c \in Palette : SetPenColor(c)
       \/ enable_eyedropper
       \/ toggle_eraser
       \/ \E fname \in FileNames : set_background_image(fname)
       \/ \E pm \in ClipboardImages \cup {"null"} : paste_image(pm)
       \/ toggle_move_mode
       \/ \E size \in WindowSizes : resizeEvent(size)
       \/ \E pos \in PointerPositions : mousePressEvent(pos)
       \/ \E pos \in PointerPositions : mouseMoveEvent(pos)
       \/ mouseReleaseEvent
    /\ Track
    /\ Hold
    /\ Before

Spec == Init /\ [][Next]_vars

----------------------------------------------------------------------------
(* Sessions.  The whole program has too many states to enumerate, so each   *)
(* claim is checked on sessions of one kind: the handlers a session uses    *)
(* are the ones above, unchanged; a session leaves out handlers and inputs  *)
(* and stops growing the pages, the stacks and the canvases at its bounds.  *)

\* at most p pages, h canvases on any stack, k paint commands on any canvas
Within(p, h, k) ==
    /\ Len(pages) <= p
    /\ \A i \in DOMAIN undo_stacks : Len(undo_stacks[i]) <= h
    /\ \A i \in DOMAIN redo_stacks : Len(redo_stacks[i]) <= h
    /\ \A i \in 1..Len(pages) : Len(pages[i].canvas) <= k

\* the pointer position of a session that draws: on the first page, and
\* inside an image pasted on it
StrokePositions == { <<600, 430>> }

\* Page-list sessions: pages are added, deleted and switched, and undo and
\* redo are used on them.
InPages(A) == A /\ Within(MaxPages, MaxHist, MaxInk)' /\ UNCHANGED <<trk, hold, prev>>

NextPages ==
    \/ InPages(add_page)
    \/ InPages(delete_current_page)
    \/ \E idx \in -1..Len(pages) : InPages(ChangePage(idx))
    \/ InPages(undo)
    \/ InPages(redo)

SpecPages == Init /\ [][NextPages]_vars

\* History sessions: strokes, background changes and stamps of a pasted image,
\* undone and redone; the page is deleted and a new one added.
InHistory(A) == A /\ Within(HistPages, HistDepth, HistInk)' /\ Track /\ UNCHANGED <<hold, prev>>

NextHistory ==
    \/ InHistory(add_page)
    \/ InHistory(delete_current_page)
    \/ InHistory(undo)
    \/ InHistory(redo)
    \/ \E fname \in FileNames : InHistory(set_background_image(fname))
    \/ \E pm \in {"small", "null"} : InHistory(paste_image(pm))
    \/ InHistory(toggle_move_mode)
    \/ \E pos \in StrokePositions : InHistory(mousePressEvent(pos))
    \/ \E pos \in StrokePositions : InHistory(mouseMoveEvent(pos))
    \/ InHistory(mouseReleaseEvent)

SpecHistory == Init /\ [][NextHistory]_vars

\* Overlay sessions: images are pasted, dragged and stamped, stamps undone,
\* the page deleted and a new one added.
InOverlay(A) == A /\ Within(OverlayPages, MaxHist, MaxInk)' /\ UNCHANGED <<trk, hold, prev>>

NextOverlay ==
    \/ InOverlay(add_page)
    \/ InOverlay(delete_current_page)
    \/ InOverlay(undo)
    \/ InOverlay(redo)
    \/ \E pm \in ClipboardImages \cup {"null"} : InOverlay(paste_image(pm))
    \/ InOverlay(toggle_move_mode)
    \/ \E pos \in PointerPositions : InOverlay(mousePressEvent(pos))
    \/ \E pos \in PointerPositions : InOverlay(mouseMoveEvent(pos))
    \/ InOverlay(mouseReleaseEvent)

SpecOverlay == Init /\ [][NextOverlay]_vars

\* the pointer positions of a session that follows presses: on the first page
\* and inside an image pasted on it, and near the page's top left corner
HoldPositions == { <<600, 430>>, <<10, 40>> }

\* Stroke sessions: on one page strokes are drawn and undone, an image is
\* pasted and stamped (also while the button is held) and dragged.
InStroke(A) ==
    A /\ Within(HistPages, MaxHist, HistInk)' /\ Hold /\ UNCHANGED <<trk, prev>>

NextStroke ==
    \/ InStroke(undo)
    \/ InStroke(paste_image("small"))
    \/ InStroke(toggle_move_mode)
    \/ \E pos \in HoldPositions : InStroke(mousePressEvent(pos))
    \/ \E pos \in HoldPositions : InStroke(mouseMoveEvent(pos))
    \/ InStroke(mouseReleaseEvent)

SpecStroke == Init /\ [][NextStroke]_vars

\* Tool sessions: on one page the pen colour, the eraser and the eyedropper
\* are chosen, colours are picked and strokes drawn, with and without a
\* floating image.
InTools(A) ==
    A /\ Within(HistPages, MaxHist, MaxInk)' /\ Before /\ UNCHANGED <<trk, hold>>

NextTools ==
    \/ \E c \in Palette : InTools(SetPenColor(c))
    \/ InTools(enable_eyedropper)
    \/ InTools(toggle_eraser)
    \/ InTools(paste_image("small"))
    \/ InTools(toggle_move_mode)
    \/ \E pos \in HoldPositions : InTools(mousePressEvent(pos))
    \/ \E pos \in HoldPositions : InTools(mouseMoveEvent(pos))
    \/ InTools(mouseReleaseEvent)

SpecTools == Init /\ [][NextTools]_vars

\* the window sizes of a session that adds pages of two sizes
SwitchSizes == { <<InitWidth, InitHeight>>, <<600, 400>> }

\* the pointer position of a session that switches pages: on a page of either
\* size
SwitchPositions == { <<300, 200>> }

\* Switch sessions: pages of two sizes are added, deleted and switched, also
\* while the button is held and while an image floats; strokes are drawn and
\* images stamped.
InSwitch(A) ==
    A /\ Within(SwitchPages, MaxHist, MaxInk)' /\ Hold /\ UNCHANGED <<trk, prev>>

NextSwitch ==
    \/ InSwitch(add_page)
    \/ InSwitch(delete_current_page)
    \/ \E idx \in 0..(Len(pages) - 1) : InSwitch(ChangePage(idx))
    \/ InSwitch(paste_image("small"))
    \/ InSwitch(toggle_move_mode)
    \/ \E size \in SwitchSizes : InSwitch(resizeEvent(size))
    \/ \E pos \in SwitchPositions : InSwitch(mousePressEvent(pos))
    \/ \E pos \in SwitchPositions : InSwitch(mouseMoveEvent(pos))
    \/ InSwitch(mouseReleaseEvent)

SpecSwitch == Init /\ [][NextSwitch]_vars

\* New-page sessions: pages are added (with the background of the active
\* page), deleted and switched, backgrounds are set, and undo and redo used.
InFresh(A) ==
    A /\ Within(SwitchPages, MaxHist, MaxInk)' /\ Before /\ UNCHANGED <<trk, hold>>

NextFresh ==
    \/ InFresh(add_page)
    \/ InFresh(delete_current_page)
    \/ \E idx \in 0..(Len(pages) - 1) : InFresh(ChangePage(idx))
    \/ InFresh(undo)
    \/ InFresh(redo)
    \/ InFresh(set_background_image("good.png"))

SpecFresh == Init /\ [][NextFresh]_vars

----------------------------------------------------------------------------
(* Claims *)

\* the identities of the pages, in order
PageIds(ps) == [i \in 1..Len(ps) |-> ps[i].id]

\* C1: deleting the page at index k of n > 1 pages leaves every remaining
\* page with the undo and redo stacks it had before the deletion: what undo
\* and redo use at the page's new index is what they used at its old index.
\* (The claim as stated; delete_current_page violates it.)
C1_DeleteKeepsHistories ==
    [][(last' = "delete_current_page" /\ Len(pages) > 1) =>
          \A j \in 1..Len(pages') :
             \E i \in 1..Len(pages) :
                /\ pages[i].id = pages'[j].id
                /\ StackAt(undo_stacks', j - 1) = StackAt(undo_stacks, i - 1)
                /\ StackAt(redo_stacks', j - 1) = StackAt(redo_stacks, i - 1)]_vars

\* C2: after add_page the new page is the last and the active one, its undo
\* stack holds exactly one snapshot, the page's own initial canvas, and its
\* redo stack is empty.  (The claim as stated; add_page after a deletion
\* violates it.)
C2_AddPageBaseline ==
    last = "add_page" =>
        /\ current_page_idx = Len(pages) - 1
        /\ StackAt(undo_stacks, current_page_idx) = <<page.canvas>>
        /\ StackAt(redo_stacks, current_page_idx) = <<>>

\* C7: the active index is a valid index of the page list when there are
\* pages, and -1 when there are none.
C7_ActiveIndexValid ==
    IF pages = <<>> THEN current_page_idx = -1
    ELSE 0 <= current_page_idx /\ current_page_idx < Len(pages)

\* C7 witness: the first of several pages was deleted and pages remain
C7_Witness ==
    /\ last = "delete_current_page"
    /\ Len(pages) = 2
    /\ current_page_idx = 0
    /\ PageIds(pages) = <<1, 2>>

\* C8: deleting the active page at index k removes exactly that page, keeps
\* the others in their order, and makes max(0, k-1) the active index, or -1
\* when no page is left.
C8_DeleteRemovesActive ==
    [][(last' = "delete_current_page" /\ pages # <<>>) =>
          LET k == current_page_idx
          IN  /\ Len(pages') = Len(pages) - 1
              /\ \A j \in 1..Len(pages') :
                    pages'[j] = IF j <= k THEN pages[j] ELSE pages[j + 1]
              /\ current_page_idx' =
                    IF pages' = <<>> THEN -1 ELSE IF k - 1 > 0 THEN k - 1 ELSE 0]_vars

\* C8 witness: the middle one of three pages was deleted
C8_Witness ==
    /\ last = "delete_current_page"
    /\ PageIds(pages) = <<0, 2>>
    /\ current_page_idx = 0

\* C3: after n destructive operations on a page, n undos bring the page's
\* canvas back to what it was before the first of them, and n redos after
\* that bring it back to what it was after the last.
C3_UndoRedoInverse ==
    /\ (trk.phase = "undo" /\ trk.k = trk.n) => (HasPage /\ page.canvas = trk.base)
    /\ (trk.phase = "redo" /\ trk.k = trk.n) => (HasPage /\ page.canvas = trk.final)

\* C3 witness: two operations that changed the canvas were undone and redone
C3_Witness ==
    /\ trk.phase = "redo"
    /\ trk.n = 2
    /\ trk.k = 2
    /\ Len(trk.final) = Len(trk.base) + 2

\* C4: when a step other than undo and redo changes the canvas of a page,
\* the redo stack of that page is empty after it.  (The claim as stated; a
\* stroke segment drawn after an undo with the button held violates it.)
C4_RedoInvalidation ==
    [][\A i \in 1..Len(pages) :
          (/\ last' \notin {"undo", "redo"}
           /\ i <= Len(pages')
           /\ pages'[i].id = pages[i].id
           /\ pages'[i].canvas # pages[i].canvas)
          => StackAt(redo_stacks', i - 1) = <<>>]_vars

\* C5: a background change whose image does not decode leaves the pages (their
\* canvases and background references), the undo and redo stacks and the
\* active index as they were.  (The claim as stated; set_background_image
\* violates it.)
C5_FailedBackgroundAtomic ==
    [][\A fname \in FileNames :
          (fname # "" /\ ~Decodable(fname) /\ set_background_image(fname))
          => UNCHANGED <<pages, current_page_idx, undo_stacks, redo_stacks>>]_vars

\* the handlers that work on the active page
PageDependent ==
    {"undo", "redo", "paste_image", "paste_image:no image", "toggle_move_mode",
     "toggle_move_mode:stamp", "set_background_image", "mousePressEvent",
     "mouseMoveEvent", "mouseReleaseEvent"}

\* C6: with no page left, a handler that works on the active page raises no
\* error and changes neither the pages, the active index, the floating image
\* nor what any stack holds.  (The claim as stated; toggle_move_mode with a
\* floating image violates it.)
C6_EmptyIsNoOp ==
    [][(pages = <<>> /\ last' \in PageDependent) =>
          /\ raised' = "none"
          /\ UNCHANGED <<pages, current_page_idx, floating_image, floating_pos, move_mode>>
          /\ \A k \in (DOMAIN undo_stacks') \cup (DOMAIN redo_stacks') :
                /\ StackAt(undo_stacks', k) = StackAt(undo_stacks, k)
                /\ StackAt(redo_stacks', k) = StackAt(redo_stacks, k)]_vars

\* the floating image is being dragged by mouseMoveEvent
Dragging == HasPage /\ floating_image # None /\ move_mode /\ drawing

\* C9: after a move that drags the floating image, on each axis its position
\* is between 0 and the page's side less the image's side when the image is
\* not larger than the page, and is 0 when it is larger.
C9_OverlayClamp ==
    (last = "mouseMoveEvent" /\ Dragging) =>
        LET ow == ImgW(floating_image)
            oh == ImgH(floating_image)
        IN  /\ IF ow <= page.w
               THEN 0 <= floating_pos[1] /\ floating_pos[1] <= page.w - ow
               ELSE floating_pos[1] = 0
            /\ IF oh <= page.h
               THEN 0 <= floating_pos[2] /\ floating_pos[2] <= page.h - oh
               ELSE floating_pos[2] = 0

\* C9 witness: an image wider than the page was dragged to the bottom edge
C9_Witness ==
    /\ last = "mouseMoveEvent"
    /\ Dragging
    /\ ImgW(floating_image) > page.w
    /\ floating_pos = <<0, page.h - ImgH(floating_image)>>

\* C10: toggle_move_mode with an image placed on the active page (and not
\* being dragged) pushes the page's canvas on its undo stack, empties its redo
\* stack, paints the image at its position and leaves no floating image; an
\* undo right after it restores the canvas without the image; paste_image
\* puts the image at (max(0, (pw-ow) div 2), max(0, (ph-oh) div 2)).
C10_CommitEffect ==
    [][LET i == current_page_idx
       IN  /\ (/\ last' \in {"toggle_move_mode", "toggle_move_mode:stamp"}
               /\ HasPage /\ floating_image # None /\ move_mode /\ ~drawing)
              => /\ i \in DOMAIN undo_stacks' /\ i \in DOMAIN redo_stacks'
                 /\ undo_stacks'[i] = Append(StackAt(undo_stacks, i), page.canvas)
                 /\ redo_stacks'[i] = <<>>
                 /\ pages'[i + 1].canvas =
                        Append(page.canvas,
                               [op |-> "pixmap", a |-> floating_pos,
                                b |-> <<ImgW(floating_image), ImgH(floating_image)>>,
                                ink |-> floating_image])
                 /\ floating_image' = None
           /\ (last = "toggle_move_mode:stamp" /\ last' = "undo")
              => /\ page.canvas = Append(pages'[i + 1].canvas, page.canvas[Len(page.canvas)])
                 /\ page.canvas[Len(page.canvas)].op = "pixmap"
           /\ (last' = "paste_image" /\ HasPage)
              => LET dx == page.w - ImgW(floating_image')
                     dy == page.h - ImgH(floating_image')
                 IN  floating_pos' = <<IF dx > 0 THEN dx \div 2 ELSE 0,
                                       IF dy > 0 THEN dy \div 2 ELSE 0>>]_vars

\* C10 witness: a dragged image was stamped where it was dropped
C10_Witness ==
    /\ last = "toggle_move_mode:stamp"
    /\ HasPage
    /\ page.canvas # <<>>
    /\ page.canvas[Len(page.canvas)].op = "pixmap"
    /\ page.canvas[Len(page.canvas)].a = <<0, 0>>
    /\ page.canvas[Len(page.canvas)].ink = "small"
    /\ ~drawing

\* C11: a stroke is one unit of undo.  After the press that starts a stroke
\* and any number of moves and the release, the undo stack of the active page
\* is one longer than before the press and its top is the canvas from before
\* the press; one undo then puts that canvas back and the stack is as long as
\* before the press.
C11_StrokeIsOneUnit ==
    LET u == StackAt(undo_stacks, current_page_idx)
    IN  /\ (hold.began = "stroke" /\ hold.since = "pointer")
           => /\ HasPage
              /\ Len(u) = hold.depth + 1
              /\ u[Len(u)] = hold.base
              /\ Len(page.canvas) = Len(hold.base) + hold.segs
        /\ (hold.began = "stroke" /\ hold.since = "undo")
           => /\ HasPage
              /\ Len(u) = hold.depth
              /\ page.canvas = hold.base

\* C11 witness: a stroke of two segments was drawn, the button released, and
\* one undo took both segments away
C11_Witness ==
    /\ hold.began = "stroke"
    /\ hold.since = "undo"
    /\ hold.segs = 2
    /\ ~left_down
    /\ last = "undo"
    /\ HasPage
    /\ page.canvas = hold.base

\* C14: a move changes the position of the floating image only when the press
\* that began the current hold of the button was inside the image.  (The claim
\* as stated; a move after an image was pasted during a stroke violates it.)
C14_DragOnlyFromInside ==
    [][(last' = "mouseMoveEvent" /\ floating_pos' # floating_pos)
          => hold.began = "drag"]_vars

\* the handler that ran was toggle_move_mode
Toggled == last' \in {"toggle_move_mode", "toggle_move_mode:stamp"}

\* C15: toggle_move_mode while the floating image is being dragged (pressed
\* inside it, the button still held) neither paints the image on the page nor
\* removes it, and a move paints on a page only when the press that began the
\* current hold started a stroke.  (The claim as stated; toggle_move_mode
\* during a drag violates it.)
C15_CommitOnlyFromPlaced ==
    [][/\ (Toggled /\ Dragging /\ left_down /\ hold.began = "drag")
          => UNCHANGED <<pages, floating_image>>
       /\ (last' = "mouseMoveEvent" /\ pages' # pages)
          => hold.began = "stroke"]_vars

\* the handler that ran was a mouse event
PointerEvent == last' \in {"mousePressEvent", "mouseMoveEvent", "mouseReleaseEvent"}

\* C16: while an image floats, no mouse event changes a page or an undo or
\* redo stack.
C16_OverlaySuppressesDrawing ==
    [][(floating_image # None /\ PointerEvent)
          => UNCHANGED <<pages, undo_stacks, redo_stacks>>]_vars

\* C16 witness: an image was pasted during a stroke that had drawn a segment,
\* and the pointer moved with the button still held
C16_Witness ==
    /\ last = "mouseMoveEvent"
    /\ floating_image # None
    /\ hold.began = "stroke"
    /\ left_down
    /\ HasPage
    /\ page.canvas # <<>>
    /\ page.canvas[Len(page.canvas)].op = "line"

\* C12: a press on the page with the eyedropper armed, not inside a floating
\* image, sets the pen colour to the colour of the pixel under the pointer,
\* disarms the eyedropper and the eraser, and leaves the pages, the undo and
\* redo stacks, the floating image and the flag of a stroke under way as
\* they were.
C12_EyedropperPick ==
    [][\A pos \in HoldPositions :
          (/\ mousePressEvent(pos)
           /\ eyedropper
           /\ in_canvas(Local(pos))
           /\ ~inside_floating(Local(pos)))
          => /\ pen_color' = PixelAt(page.canvas, Local(pos))
             /\ ~eyedropper'
             /\ ~eraser'
             /\ ~drawing'
             /\ UNCHANGED <<pages, undo_stacks, redo_stacks, floating_image,
                            floating_pos, move_mode, drawing>>]_vars

\* C12 witness: with an image floating, the eyedropper was armed and the next
\* press picked the white of the page beside the image
C12_Witness ==
    /\ prev = "enable_eyedropper"
    /\ last = "mousePressEvent"
    /\ left_down
    /\ ~eyedropper
    /\ pen_color = "white"
    /\ floating_image # None
    /\ ~drawing

\* C13: the eraser and the eyedropper are never both on.
C13_ToolsExclusive == ~(eraser /\ eyedropper)

\* C13 witness: the eraser was switched on while the eyedropper was armed
C13_Witness ==
    /\ prev = "enable_eyedropper"
    /\ last = "toggle_eraser"
    /\ eraser
    /\ ~eyedropper

\* C20: move_mode is true exactly when there is a floating image, and
\* toggle_move_mode with no floating image changes nothing.
C20_MoveModeIffFloating ==
    /\ [](move_mode <=> floating_image # None)
    /\ [][(Toggled /\ floating_image = None)
            => UNCHANGED <<pages, current_page_idx, undo_stacks, redo_stacks,
                           drawing, last_point, pen_color, eraser, eraser_checked,
                           eyedropper, floating_image, floating_pos, move_mode,
                           win, left_down, raised>>]_vars

\* C20 witness: an image was stamped, and toggle_move_mode ran again with no
\* floating image
C20_Witness ==
    /\ last = "toggle_move_mode"
    /\ floating_image = None
    /\ ~move_mode
    /\ raised = "none"
    /\ HasPage
    /\ page.canvas # <<>>
    /\ page.canvas[Len(page.canvas)].op = "pixmap"

\* C17: an undo right after add_page raises no error and leaves the canvas of
\* the new page (and of every other page) with the content it had, and so
\* does a redo right after that undo.
C17_UndoAfterAddIsNoOp ==
    [][/\ (last = "add_page" /\ last' = "undo")
          => /\ raised' = "none"
             /\ HasPage
             /\ pages' = pages
       /\ (prev = "add_page" /\ last = "undo" /\ last' = "redo")
          => /\ raised' = "none"
             /\ HasPage
             /\ pages' = pages]_vars

\* C17 witness: a page with a background was added at an index that still had
\* the undo stack of a deleted page, and undone, and redone
C17_Witness ==
    /\ prev = "undo"
    /\ last = "redo"
    /\ HasPage
    /\ page.canvas # <<>>
    /\ current_page_idx = 1
    /\ Len(StackAt(undo_stacks, current_page_idx)) = 2
    /\ undo_stacks[current_page_idx][1] # page.canvas
    /\ undo_stacks[current_page_idx][2] = page.canvas

\* C18: a move paints a segment of a stroke only on the page that was active
\* at the press that started the stroke.  (The claim as stated; a move after
\* the active page changed with the button held violates it.)
C18_StrokeStaysOnItsPage ==
    [][\A i \in 1..Len(pages) :
          (/\ last' = "mouseMoveEvent"
           /\ hold.began = "stroke"
           /\ pages'[i].canvas # pages[i].canvas)
          => pages[i].id = hold.id]_vars

\* C19: a floating image that is not larger than the active page lies within
\* the page: 0 <= x <= pw - ow and 0 <= y <= ph - oh.  (The claim as stated;
\* an image pasted on a large page violates it once a smaller page is active.)
C19_OverlayWithinPage ==
    (HasPage /\ floating_image # None
       /\ ImgW(floating_image) <= page.w /\ ImgH(floating_image) <= page.h)
    => /\ 0 <= floating_pos[1] /\ floating_pos[1] <= page.w - ImgW(floating_image)
       /\ 0 <= floating_pos[2] /\ floating_pos[2] <= page.h - ImgH(floating_image)

====
